---- MODULE Spec2Model ----
(***************************************************************************)
(* Prompt relay of vercel-sdk-demo: request normalisation, the streaming   *)
(* relay of the two server revisions (hand-written SSE in                  *)
(* server/server.ts, SDK data stream in the later server revision) and the *)
(* conversation recorder.                                                  *)
(*                                                                         *)
(* Texts are sequences of string tokens.  A value that a request may omit  *)
(* is a record [present, ...].                                             *)
(***************************************************************************)
EXTENDS Integers, Sequences, FiniteSets, TLC

\* ---------------------------------------------------------------- bounds
MaxMsgs == 3      \* longest message list of a request
MaxRefs == 2      \* longest reference list of a request
MaxIncr == 2      \* most increments the remote stream delivers
NumEx == 2        \* exchanges handled side by side
MaxTicks == 1     \* milliseconds that pass
MaxChunks == 2    \* most chunks of a Bedrock response stream
MaxOpens == 2     \* most event sources the client opens
NumConn == 2      \* requests in flight side by side

\* ------------------------------------------------------------ data model
Roles == {"system", "user", "assistant"}

\* message contents a caller sends
UserTexts == {<<"x">>, <<"y">>}

Messages == [role : Roles, content : UserTexts]

\* ReferenceDoc {title, url, content?}; content "" stands for an absent or
\* empty content (both are falsy in the source)
Docs == { [title |-> "T1", url |-> "U1", content |-> ""],
          [title |-> "T2", url |-> "U2", content |-> "c2"] }

RECURSIVE SeqsUpTo(_, _)
SeqsUpTo(S, n) ==
    IF n = 0 THEN {<<>>}
    ELSE LET shorter == SeqsUpTo(S, n - 1)
         IN  shorter \cup { Append(s, e) : s \in shorter, e \in S }

MsgLists == SeqsUpTo(Messages, MaxMsgs)
RefLists == SeqsUpTo(Docs, MaxRefs)

\* ------------------------------------------------- generateSystemPrompt
IdxTok(i) == CASE i = 0 -> "[0]" [] i = 1 -> "[1]" [] i = 2 -> "[2]"
               [] i = 3 -> "[3]" [] i = 4 -> "[4]" [] OTHER -> "[n]"

\* the lines one document adds: "[i] title (url)" and, when the document
\* has content, "内容: content"
DocLines(doc, i) ==
    <<IdxTok(i), doc.title, doc.url>>
      \o (IF doc.content # "" THEN <<"content:", doc.content>> ELSE <<>>)

RECURSIVE AllDocLines(_, _)
AllDocLines(references, i) ==
    IF i > Len(references) THEN <<>>
    ELSE DocLines(references[i], i) \o AllDocLines(references, i + 1)

\* a plausible slip: the citation carries the array index, not index + 1
RECURSIVE AllDocLines_zero(_, _)
AllDocLines_zero(references, i) ==
    IF i > Len(references) THEN <<>>
    ELSE DocLines(references[i], i - 1) \o AllDocLines_zero(references, i + 1)

generateSystemPrompt_zeroBased(references) ==
    <<"BASE">> \o
    (IF Len(references) > 0
       THEN <<"HEADER">> \o AllDocLines_zero(references, 1) \o <<"FOOTER">>
       ELSE <<>>)

generateSystemPrompt(references) ==
    <<"BASE">> \o
    (IF Len(references) > 0
       THEN <<"HEADER">> \o AllDocLines(references, 1) \o <<"FOOTER">>
       ELSE <<>>)

\* -------------------------------------------- addSystemPromptToMessages
SystemMessage(references) ==
    [role |-> "system", content |-> generateSystemPrompt(references)]

hasSystemPrompt(messages) ==
    \E i \in 1..Len(messages) : messages[i].role = "system"

\* a plausible slip: always prepend, never replace
addSystemPromptToMessages_prepend(messages, references) ==
    <<SystemMessage(references)>> \o messages

\* a plausible slip: the system message is assumed to be the first entry
addSystemPromptToMessages_first(messages, references) ==
    IF hasSystemPrompt(messages)
      THEN <<SystemMessage(references)>> \o Tail(messages)
      ELSE <<SystemMessage(references)>> \o messages

addSystemPromptToMessages(messages, references) ==
    IF hasSystemPrompt(messages)
      THEN [i \in 1..Len(messages) |->
              IF messages[i].role = "system"
                THEN SystemMessage(references)
                ELSE messages[i]]
      ELSE <<SystemMessage(references)>> \o messages

\* -------------------------------------------------------- request inputs
Handlers == {"ssePOST", "sseGET", "dsPOST", "dsGET"}

IsSse(h) == h \in {"ssePOST", "sseGET"}
IsDs(h) == h \in {"dsPOST", "dsGET"}

\* prompt: absent, the empty string, or a text
Prompts == { [present |-> FALSE, text |-> <<>>],
             [present |-> TRUE, text |-> <<>>],
             [present |-> TRUE, text |-> <<"hi">>] }

NoMessages == [present |-> FALSE, list |-> <<>>]

RelayMsgLists ==
    { <<>>,
      << [role |-> "user", content |-> <<"x">>] >>,
      << [role |-> "user", content |-> <<"x">>],
         [role |-> "system", content |-> <<"y">>] >> }

MessageInputs == {NoMessages} \cup { [present |-> TRUE, list |-> l] : l \in RelayMsgLists }

\* references: absent, a list, JSON null, or (query parameter only) a string
\* that is not JSON
NoReferences == [kind |-> "absent", list |-> <<>>]

RelayRefLists == SeqsUpTo(Docs, 1)

BodyReferences ==
    {NoReferences, [kind |-> "null", list |-> <<>>]}
      \cup { [kind |-> "list", list |-> l] : l \in RelayRefLists }

QueryReferences ==
    BodyReferences \cup { [kind |-> "malformed", list |-> <<>>] }

Requests ==
    [handler : {"dsPOST"}, prompt : Prompts, messages : MessageInputs,
     references : BodyReferences]
    \cup
    [handler : {"dsGET"}, prompt : Prompts, messages : {NoMessages},
     references : QueryReferences]
    \cup
    [handler : {"ssePOST", "sseGET"}, prompt : Prompts, messages : {NoMessages},
     references : {NoReferences}]

NoRequest ==
    [handler |-> "none", prompt |-> [present |-> FALSE, text |-> <<>>],
     messages |-> NoMessages, references |-> NoReferences]

\* text increments of the remote stream; one of them reads like the sentinel
IncrTexts == {"a", "[DONE]"}

\* --------------------------------------------------------- handler parts
\* !prompt: absent and empty prompts are both falsy
Falsy(prompt) == ~prompt.present \/ prompt.text = <<>>

\* a mutant of the credential check: only the access key id is tested
CredentialsMissing_keyOnly(e) == ~e.keyId

\* !process.env.AWS_ACCESS_KEY_ID || !process.env.AWS_SECRET_ACCESS_KEY
CredentialsMissing(e) == ~e.keyId \/ ~e.secret

\* a mutant of the validation: a request without prompt passes when a
\* message list is present, even an empty one
InvalidRequest_presentOnly(r) ==
    IF r.handler = "dsPOST"
      THEN Falsy(r.prompt) /\ ~r.messages.present
      ELSE Falsy(r.prompt)

\* !prompt && (!messages || messages.length === 0)  /  !promptQuery.prompt
InvalidRequest(r) ==
    IF r.handler = "dsPOST"
      THEN Falsy(r.prompt) /\ (~r.messages.present \/ Len(r.messages.list) = 0)
      ELSE Falsy(r.prompt)

PromptText(prompt) == IF prompt.present THEN prompt.text ELSE <<"undefined">>

DefaultPrompt == <<"default-prompt">>

\* userInput: the last message's content, else the prompt
userInput(r) ==
    IF r.handler = "dsPOST" /\ r.messages.present /\ Len(r.messages.list) > 0
      THEN r.messages.list[Len(r.messages.list)].content
      ELSE IF r.handler = "sseGET" /\ Falsy(r.prompt)
             THEN DefaultPrompt
             ELSE PromptText(r.prompt)

\* the reference list the handler works with: references || [] (POST),
\* the parsed query parameter or [] (GET)
EffectiveRefs(r) == IF r.references.kind = "list" THEN r.references.list ELSE <<>>

\* a plausible slip: the JSON.parse of the query parameter is not guarded
NormalizeThrows_malformed(r) ==
    r.handler = "dsGET" /\ r.references.kind \in {"null", "malformed"}

\* JSON.parse of "null" yields null and generateSystemPrompt(null) throws
NormalizeThrows(r) == r.handler = "dsGET" /\ r.references.kind = "null"

\* the message list handed to streamText
messageArrayOf(r) ==
    IF IsSse(r.handler)
      THEN << [role |-> "user", content |-> userInput(r)] >>
      ELSE addSystemPromptToMessages(
             IF r.handler = "dsPOST" /\ r.messages.present
               THEN r.messages.list
               ELSE << [role |-> "user", content |-> PromptText(r.prompt)] >>,
             EffectiveRefs(r))

DefaultRefs ==
    << [title |-> "AWS Bedrock Documentation", url |-> "docs.aws.amazon.com/bedrock", content |-> ""],
       [title |-> "Claude API Reference", url |-> "docs.anthropic.com/claude/reference", content |-> ""],
       [title |-> "Fastify Documentation", url |-> "www.fastify.io/docs/latest", content |-> ""] >>

\* ref => ({title, url, ...(ref.content ? {content} : {})})
MetaRefs(list) ==
    [i \in 1..Len(list) |->
        [title |-> list[i].title, url |-> list[i].url,
         content |-> IF list[i].content # "" THEN list[i].content ELSE ""]]

ModelName(h) == IF h \in {"ssePOST", "dsPOST"} THEN "Claude 3.5 Sonnet" ELSE "Claude 3 Sonnet"

SessionId(h) == IF IsDs(h) THEN "session_t0" ELSE ""

customDataOf(r) ==
    [prompt |-> userInput(r),
     model |-> ModelName(r.handler),
     sessionId |-> SessionId(r.handler),
     references |->
        CASE IsSse(r.handler) -> DefaultRefs
          [] r.handler = "dsPOST" ->
               IF r.references.kind = "list"
                 THEN MetaRefs(r.references.list) ELSE DefaultRefs
          [] OTHER ->
               IF Len(EffectiveRefs(r)) > 0
                 THEN MetaRefs(EffectiveRefs(r)) ELSE DefaultRefs]

NoMeta == [prompt |-> <<>>, model |-> "", sessionId |-> "", references |-> <<>>]

\* ----------------------------------------------------------------- frames
\* a frame is one write to reply.raw: the event name, the tokens of its
\* data field and, for a metadata event, the object it carries
SseMeta(cd) == [event |-> "customData", data |-> <<"{customData}">>, meta |-> cd]

\* a mutant of the content framing: the increment is written raw
SseData_raw(x) == [event |-> "message", data |-> <<x>>, meta |-> NoMeta]

\* `data: ${JSON.stringify({ text: chunk })}\n\n`
SseData(x) == [event |-> "message", data |-> <<"{", "text:", x, "}">>, meta |-> NoMeta]

\* 'data: [DONE]\n\n'
SseDone == [event |-> "message", data |-> <<"[DONE]">>, meta |-> NoMeta]

\* parts of the SDK data stream, forwarded by pump as they are read
DsData(cd) == [event |-> "2", data |-> <<"[customData]">>, meta |-> cd]
DsAnnotation == [event |-> "8", data |-> <<"processing">>, meta |-> NoMeta]
DsText(x) == [event |-> "0", data |-> <<x>>, meta |-> NoMeta]
DsFinish == [event |-> "d", data |-> <<"finish">>, meta |-> NoMeta]
DsError == [event |-> "3", data |-> <<"error-message">>, meta |-> NoMeta]

IsMeta(f) == f.event \in {"customData", "2"}

IsContent(f) ==
    \/ f.event = "0"
    \/ f.event = "message" /\ Len(f.data) = 4 /\ f.data[1] = "{" /\ f.data[2] = "text:"

IsSentinel(f) == f = SseDone \/ f = DsFinish

\* the increment a content frame carries (JSON.parse(event.data).text)
TextOf(f) == IF f.event = "0" THEN f.data[1] ELSE f.data[3]

RECURSIVE ContentTexts(_)
ContentTexts(frames) ==
    IF frames = <<>> THEN <<>>
    ELSE IF IsContent(Head(frames))
           THEN <<TextOf(Head(frames))>> \o ContentTexts(Tail(frames))
           ELSE ContentTexts(Tail(frames))

CountMeta(frames) == Cardinality({ i \in 1..Len(frames) : IsMeta(frames[i]) })

CountContent(frames) == Cardinality({ i \in 1..Len(frames) : IsContent(frames[i]) })

CountSentinel(frames) == Cardinality({ i \in 1..Len(frames) : IsSentinel(frames[i]) })

IsPrefix(s, t) == Len(s) <= Len(t) /\ SubSeq(t, 1, Len(s)) = s

\* ------------------------------------------------------------- variables
VARIABLES
    nPc, nIn, nRefs, nOut,   \* the normaliser applied on its own
    env,            \* process.env: which credentials are set
    req,            \* the request being handled
    pc,             \* where the handler stands
    status,         \* status of the response head, 0 while none is written
    body,           \* payload of a reply.send response, "" while none
    out,            \* frames written to reply.raw, in write order
    ended,          \* the output channel is closed
    clientGone,     \* the client has disconnected
    goneAt,         \* increments received when the client disconnected
    remoteState,    \* remote stream: "none", "calling", "open", "ended", "failed"
    recv,           \* increments received from the remote stream, in order
    messageArray,   \* messages handed to streamText
    customData,     \* metadata object of the request
    sdkQueue,       \* data-stream parts produced and not yet read by pump
    sdkClosed,      \* the data-stream body has been closed by the SDK
    saveState,      \* recorder: "idle", "writing", "saved", "failed"
    store,          \* files of the log directory
    saveCalls,      \* calls of saveConversationToFile for this request
    outAtGone,      \* frames written when the client disconnected
    now,            \* the clock, in milliseconds
    ex,             \* exchanges of the log: state, session start, save time
    logDir,         \* files of the log directory, by name
    created,        \* files created so far
    history,        \* payload of the last /api/history reply over the
                    \* directory as it is, <<>> once the directory changes
    hStatus,        \* status of that reply, 0 while there is none
    listsSinceWrite, \* /api/history calls since the directory last changed
    healthBody,     \* payload of the last health reply
    br,             \* a call of BedrockClient.streamResponse
    ui,             \* the EventSource client
    conns           \* requests in flight side by side

normVars == <<nPc, nIn, nRefs, nOut>>

relayVars == <<env, req, pc, status, body, out, ended, clientGone, goneAt,
               remoteState, recv, messageArray, customData, sdkQueue,
               sdkClosed, saveState, store, saveCalls, outAtGone>>

logVars == <<now, ex, logDir, created, history, hStatus, listsSinceWrite,
             healthBody>>

vars == <<nPc, nIn, nRefs, nOut, env, req, pc, status, body, out, ended,
          clientGone, goneAt, remoteState, recv, messageArray, customData,
          sdkQueue, sdkClosed, saveState, store, saveCalls, outAtGone,
          now, ex, logDir, created, history, hStatus, listsSinceWrite,
          healthBody, br, ui, conns>>

extVars == <<br, ui, conns>>

Envs == [keyId : BOOLEAN, secret : BOOLEAN]

RelayIdle ==
    /\ req = NoRequest
    /\ pc = "idle"
    /\ status = 0
    /\ body = ""
    /\ out = <<>>
    /\ ended = FALSE
    /\ clientGone = FALSE
    /\ goneAt = 0
    /\ remoteState = "none"
    /\ recv = <<>>
    /\ messageArray = <<>>
    /\ customData = NoMeta
    /\ sdkQueue = <<>>
    /\ sdkClosed = FALSE
    /\ saveState = "idle"
    /\ store = {}
    /\ saveCalls = 0
    /\ outAtGone = 0

NormOff ==
    /\ nPc = "off"
    /\ nIn = <<>>
    /\ nRefs = <<>>
    /\ nOut = <<>>

Exchanges == 1..NumEx

NoBody == [status |-> "", message |-> ""]

BrOff == [pc |-> "off", body |-> <<>>, seen |-> <<>>, calls |-> <<>>]

UiOff == [pc |-> "off"]

ConnsOff == <<>>

ExtOff ==
    /\ br = BrOff
    /\ ui = UiOff
    /\ conns = ConnsOff

LogOff ==
    /\ now = 0
    /\ ex = [e \in Exchanges |-> [state |-> "idle", start |-> 0, ts |-> 0]]
    /\ logDir = {}
    /\ created = 0
    /\ history = <<>>
    /\ hStatus = 0
    /\ listsSinceWrite = 0
    /\ healthBody = NoBody

\* ------------------------------------------------- normaliser on its own
NormInit ==
    /\ nPc = "input"
    /\ nIn \in MsgLists
    /\ nRefs \in RefLists
    /\ nOut = <<>>
    /\ env = [keyId |-> TRUE, secret |-> TRUE]
    /\ RelayIdle
    /\ LogOff
    /\ ExtOff

Normalize ==
    /\ nPc = "input"
    /\ nOut' = addSystemPromptToMessages(nIn, nRefs)
    /\ nPc' = "done"
    /\ UNCHANGED <<nIn, nRefs>>
    /\ UNCHANGED <<relayVars, logVars, extVars>>

\* the normaliser applied to its own output, with the same references
NormalizeAgain ==
    /\ nPc = "done"
    /\ nIn' = nOut
    /\ nOut' = addSystemPromptToMessages(nOut, nRefs)
    /\ nPc' = "again"
    /\ UNCHANGED nRefs
    /\ UNCHANGED <<relayVars, logVars, extVars>>

NormNext ==
    \/ Normalize
    \/ NormalizeAgain

SpecNorm == NormInit /\ [][NormNext]_vars

\* ------------------------------------------------------------- the relay
Init ==
    /\ NormOff
    /\ env \in Envs
    /\ RelayIdle
    /\ LogOff
    /\ ExtOff

\* reply.code(c).send({ error: msg }) while no head has been written
ReplySend(c, msg) ==
    /\ status' = c
    /\ body' = msg
    /\ ended' = TRUE
    /\ pc' = "done"

\* The synchronous head of a handler, up to the await of streamText:
\* validation, normalisation, credential check, metadata, remote call.
Receive(r) ==
    /\ pc = "idle"
    /\ req' = r
    /\ IF IsDs(r.handler) /\ InvalidRequest(r)
         THEN /\ ReplySend(400, IF r.handler = "dsPOST"
                                  THEN "Prompt or messages is required"
                                  ELSE "Prompt is required")
              /\ UNCHANGED <<remoteState, messageArray, customData>>
         ELSE IF IsDs(r.handler) /\ NormalizeThrows(r)
         THEN /\ ReplySend(500, "An error occurred while processing the request")
              /\ UNCHANGED <<remoteState, messageArray, customData>>
         ELSE IF CredentialsMissing(env)
         THEN /\ ReplySend(500, "AWS credentials are not set")
              /\ messageArray' = IF IsDs(r.handler) THEN messageArrayOf(r) ELSE <<>>
              /\ UNCHANGED <<remoteState, customData>>
         ELSE /\ messageArray' = messageArrayOf(r)
              /\ customData' = customDataOf(r)
              /\ remoteState' = "calling"
              /\ pc' = "awaitCall"
              /\ UNCHANGED <<status, body, ended>>
    /\ UNCHANGED <<env, out, clientGone, goneAt, recv, sdkQueue, sdkClosed,
                   saveState, store>>
    /\ UNCHANGED <<normVars, logVars, extVars, saveCalls, outAtGone>>

\* await streamText(...) rejects: the catch block answers 500
CallFails ==
    /\ pc = "awaitCall"
    /\ remoteState' = "failed"
    /\ ReplySend(500, "An error occurred while processing the request")
    /\ UNCHANGED <<env, req, out, clientGone, goneAt, recv, messageArray,
                   customData, sdkQueue, sdkClosed, saveState, store>>
    /\ UNCHANGED <<normVars, logVars, extVars, saveCalls, outAtGone>>

\* a mutant of the response start: the metadata is not sent
CallReturns_noMeta ==
    /\ pc = "awaitCall"
    /\ remoteState' = "open"
    /\ status' = 200
    /\ pc' = "streaming"
    /\ IF IsSse(req.handler)
         THEN UNCHANGED <<out, sdkQueue>>
         ELSE /\ sdkQueue' = <<DsAnnotation>>
              /\ UNCHANGED out
    /\ UNCHANGED <<env, req, body, ended, clientGone, goneAt, recv,
                   messageArray, customData, sdkClosed, saveState, store>>
    /\ UNCHANGED <<normVars, logVars, extVars, saveCalls, outAtGone>>

\* await streamText(...) resolves.  SSE revision: writeHead(200) and the
\* customData event.  Data-stream revision: createDataStreamResponse runs
\* execute (writeData, writeMessageAnnotation, mergeIntoDataStream), then
\* writeHead(response.status).
CallReturns ==
    /\ pc = "awaitCall"
    /\ remoteState' = "open"
    /\ status' = 200
    /\ pc' = "streaming"
    /\ IF IsSse(req.handler)
         THEN /\ out' = Append(out, SseMeta(customData))
              /\ UNCHANGED sdkQueue
         ELSE /\ sdkQueue' = <<DsData(customData), DsAnnotation>>
              /\ UNCHANGED out
    /\ UNCHANGED <<env, req, body, ended, clientGone, goneAt, recv,
                   messageArray, customData, sdkClosed, saveState, store>>
    /\ UNCHANGED <<normVars, logVars, extVars, saveCalls, outAtGone>>

\* for await (const chunk of textStream): one increment arrives and is
\* written as one event
SseChunk(x) ==
    /\ pc = "streaming"
    /\ IsSse(req.handler)
    /\ remoteState = "open"
    /\ Len(recv) < MaxIncr
    /\ recv' = Append(recv, x)
    /\ out' = Append(out, SseData(x))
    /\ UNCHANGED <<env, req, pc, status, body, ended, clientGone, goneAt,
                   remoteState, messageArray, customData, sdkQueue, sdkClosed,
                   saveState, store>>
    /\ UNCHANGED <<normVars, logVars, extVars, saveCalls, outAtGone>>

\* the remote stream ends: the loop exits, '[DONE]' is written and the
\* response is ended
SseEnd ==
    /\ pc = "streaming"
    /\ IsSse(req.handler)
    /\ remoteState = "open"
    /\ remoteState' = "ended"
    /\ out' = Append(out, SseDone)
    /\ ended' = TRUE
    /\ pc' = "done"
    /\ UNCHANGED <<env, req, status, body, clientGone, goneAt, recv,
                   messageArray, customData, sdkQueue, sdkClosed, saveState,
                   store>>
    /\ UNCHANGED <<normVars, logVars, extVars, saveCalls, outAtGone>>

\* the remote stream fails inside the loop: the catch block calls
\* reply.code(500).send(...) on a response whose head is already written.
\* The head cannot be replaced; whether the framework then closes the
\* channel is not decided by the handler, so both outcomes are kept.
SseFail ==
    /\ pc = "streaming"
    /\ IsSse(req.handler)
    /\ remoteState = "open"
    /\ remoteState' = "failed"
    /\ ended' \in BOOLEAN
    /\ pc' = "done"
    /\ UNCHANGED <<env, req, status, body, out, clientGone, goneAt, recv,
                   messageArray, customData, sdkQueue, sdkClosed, saveState,
                   store>>
    /\ UNCHANGED <<normVars, logVars, extVars, saveCalls, outAtGone>>

\* a plausible slip: the recorder is started from onChunk
SdkChunk_saves(x) ==
    /\ pc = "streaming"
    /\ IsDs(req.handler)
    /\ remoteState = "open"
    /\ Len(recv) < MaxIncr
    /\ recv' = Append(recv, x)
    /\ sdkQueue' = Append(sdkQueue, DsText(x))
    /\ saveState' = "writing"
    /\ saveCalls' = saveCalls + 1
    /\ UNCHANGED <<env, req, pc, status, body, out, ended, clientGone, goneAt,
                   remoteState, messageArray, customData, sdkClosed, store>>
    /\ UNCHANGED <<normVars, logVars, extVars, outAtGone>>

\* data-stream revision: the merged text stream delivers one increment,
\* which becomes one text part of the response body
SdkChunk(x) ==
    /\ pc = "streaming"
    /\ IsDs(req.handler)
    /\ remoteState = "open"
    /\ Len(recv) < MaxIncr
    /\ recv' = Append(recv, x)
    /\ sdkQueue' = Append(sdkQueue, DsText(x))
    /\ UNCHANGED <<env, req, pc, status, body, out, ended, clientGone, goneAt,
                   remoteState, messageArray, customData, sdkClosed, saveState,
                   store>>
    /\ UNCHANGED <<normVars, logVars, extVars, saveCalls, outAtGone>>

\* the remote stream ends: the finish part is produced, the body is closed
\* and onFinish starts saving the conversation
SdkFinish ==
    /\ pc = "streaming"
    /\ IsDs(req.handler)
    /\ remoteState = "open"
    /\ remoteState' = "ended"
    /\ sdkQueue' = Append(sdkQueue, DsFinish)
    /\ sdkClosed' = TRUE
    /\ saveState' = "writing"
    /\ saveCalls' = saveCalls + 1
    /\ UNCHANGED <<env, req, pc, status, body, out, ended, clientGone, goneAt,
                   recv, messageArray, customData, store>>
    /\ UNCHANGED <<normVars, logVars, extVars, outAtGone>>

\* the remote stream fails: onError turns the error into a message, which
\* is produced as an error part, and the body is closed
SdkError ==
    /\ pc = "streaming"
    /\ IsDs(req.handler)
    /\ remoteState = "open"
    /\ remoteState' = "failed"
    /\ sdkQueue' = Append(sdkQueue, DsError)
    /\ sdkClosed' = TRUE
    /\ UNCHANGED <<env, req, pc, status, body, out, ended, clientGone, goneAt,
                   recv, messageArray, customData, saveState, store>>
    /\ UNCHANGED <<normVars, logVars, extVars, saveCalls, outAtGone>>

\* a mutant of pump: the newest part is written instead of the oldest
PumpRead_newest ==
    /\ pc = "streaming"
    /\ IsDs(req.handler)
    /\ sdkQueue # <<>>
    /\ out' = Append(out, sdkQueue[Len(sdkQueue)])
    /\ sdkQueue' = SubSeq(sdkQueue, 1, Len(sdkQueue) - 1)
    /\ UNCHANGED <<env, req, pc, status, body, ended, clientGone, goneAt,
                   remoteState, recv, messageArray, customData, sdkClosed,
                   saveState, store>>
    /\ UNCHANGED <<normVars, logVars, extVars, saveCalls, outAtGone>>

\* pump, not done: reply.raw.write(value); return pump()
PumpRead ==
    /\ pc = "streaming"
    /\ IsDs(req.handler)
    /\ sdkQueue # <<>>
    /\ out' = Append(out, Head(sdkQueue))
    /\ sdkQueue' = Tail(sdkQueue)
    /\ UNCHANGED <<env, req, pc, status, body, ended, clientGone, goneAt,
                   remoteState, recv, messageArray, customData, sdkClosed,
                   saveState, store>>
    /\ UNCHANGED <<normVars, logVars, extVars, saveCalls, outAtGone>>

\* a plausible slip: pump returns on done without ending the response
PumpDone_noEnd ==
    /\ pc = "streaming"
    /\ IsDs(req.handler)
    /\ sdkQueue = <<>>
    /\ sdkClosed
    /\ pc' = "done"
    /\ UNCHANGED <<env, req, status, body, out, ended, clientGone, goneAt,
                   remoteState, recv, messageArray, customData, sdkQueue,
                   sdkClosed, saveState, store>>
    /\ UNCHANGED <<normVars, logVars, extVars, saveCalls, outAtGone>>

\* pump, done: reply.raw.end()
PumpDone ==
    /\ pc = "streaming"
    /\ IsDs(req.handler)
    /\ sdkQueue = <<>>
    /\ sdkClosed
    /\ ended' = TRUE
    /\ pc' = "done"
    /\ UNCHANGED <<env, req, status, body, out, clientGone, goneAt,
                   remoteState, recv, messageArray, customData, sdkQueue,
                   sdkClosed, saveState, store>>
    /\ UNCHANGED <<normVars, logVars, extVars, saveCalls, outAtGone>>

\* the record onFinish assembles: customData, the response text, and the
\* file name saveConversationToFile derives from the session id
ConversationFile ==
    [name |-> <<customData.sessionId, "t1">>,
     data |-> [meta |-> customData, response |-> recv]]

\* a plausible slip: a rejected write is not caught and reaches the stream
SaveConversation_throws(ok) ==
    /\ saveState = "writing"
    /\ IF ok
         THEN /\ store' = store \cup {ConversationFile}
              /\ saveState' = "saved"
              /\ UNCHANGED sdkQueue
         ELSE /\ store' = store
              /\ saveState' = "failed"
              /\ sdkQueue' = Append(sdkQueue, DsError)
    /\ UNCHANGED <<env, req, pc, status, body, out, ended, clientGone, goneAt,
                   remoteState, recv, messageArray, customData, sdkClosed>>
    /\ UNCHANGED <<normVars, logVars, extVars, saveCalls, outAtGone>>

\* saveConversationToFile: fs.writeFile resolves, or rejects and is caught
SaveConversation(ok) ==
    /\ saveState = "writing"
    /\ IF ok
         THEN /\ store' = store \cup {ConversationFile}
              /\ saveState' = "saved"
         ELSE /\ store' = store
              /\ saveState' = "failed"
    /\ UNCHANGED <<env, req, pc, status, body, out, ended, clientGone, goneAt,
                   remoteState, recv, messageArray, customData, sdkQueue,
                   sdkClosed>>
    /\ UNCHANGED <<normVars, logVars, extVars, saveCalls, outAtGone>>

\* the client goes away; no handler listens for it
ClientDisconnect ==
    /\ pc \in {"awaitCall", "streaming"}
    /\ ~clientGone
    /\ clientGone' = TRUE
    /\ goneAt' = Len(recv)
    /\ outAtGone' = Len(out)
    /\ UNCHANGED <<env, req, pc, status, body, out, ended, remoteState, recv,
                   messageArray, customData, sdkQueue, sdkClosed, saveState,
                   store>>
    /\ UNCHANGED <<normVars, logVars, extVars, saveCalls>>

Next ==
    \/ \E r \in Requests : Receive(r)
    \/ CallFails
    \/ CallReturns
    \/ \E x \in IncrTexts : SseChunk(x)
    \/ SseEnd
    \/ SseFail
    \/ \E x \in IncrTexts : SdkChunk(x)
    \/ SdkFinish
    \/ SdkError
    \/ PumpRead
    \/ PumpDone
    \/ \E ok \in BOOLEAN : SaveConversation(ok)
    \/ ClientDisconnect

Spec == Init /\ [][Next]_vars

\* The relay with the scheduling the runtime gives: a pending read of pump
\* is resumed once a part or the end of the body is there, and a started
\* fs.writeFile settles.  Nothing is assumed of the remote stream.
SpecLive ==
    /\ Init
    /\ [][Next]_vars
    /\ WF_vars(PumpRead)
    /\ WF_vars(PumpDone)
    /\ WF_vars(\E ok \in BOOLEAN : SaveConversation(ok))

\* ------------------------------------------------------- BedrockClient
\* A chunk of the response stream: whether it carries bytes, whether the
\* bytes parse as JSON, the type of the parsed event and its delta text
\* ("" when there is none).
Chunks ==
    { [bytes |-> TRUE,  parses |-> TRUE,  type |-> "content_block_delta", text |-> "a"],
      [bytes |-> TRUE,  parses |-> TRUE,  type |-> "content_block_delta", text |-> "b"],
      [bytes |-> TRUE,  parses |-> TRUE,  type |-> "content_block_delta", text |-> ""],
      [bytes |-> TRUE,  parses |-> TRUE,  type |-> "message_start",       text |-> "a"],
      [bytes |-> FALSE, parses |-> TRUE,  type |-> "",                    text |-> ""],
      [bytes |-> TRUE,  parses |-> FALSE, type |-> "",                    text |-> ""] }

\* chunk.chunk?.bytes is set and JSON.parse throws
ChunkThrows(c) == c.bytes /\ ~c.parses

\* parsedChunk.type === 'content_block_delta' && parsedChunk.delta?.text
ChunkHasText(c) ==
    c.bytes /\ c.parses /\ c.type = "content_block_delta" /\ c.text # ""

BrInit ==
    /\ NormOff
    /\ env = [keyId |-> TRUE, secret |-> TRUE]
    /\ RelayIdle
    /\ LogOff
    /\ ui = UiOff
    /\ conns = ConnsOff
    /\ \E b \in SeqsUpTo(Chunks, MaxChunks) :
          br = [pc |-> "sending", body |-> b, seen |-> <<>>, calls |-> <<>>]

BrFrame == UNCHANGED <<normVars, relayVars, logVars, ui, conns>>

\* await this.client.send(command): resolves, or rejects and the catch
\* block logs and rethrows
BrSend(ok) ==
    /\ br.pc = "sending"
    /\ br' = [br EXCEPT !.pc = IF ok THEN "reading" ELSE "thrown"]
    /\ BrFrame

\* a plausible slip: a chunk that does not parse is skipped
BrChunk_skipBad ==
    /\ br.pc = "reading"
    /\ br.body # <<>>
    /\ LET c == Head(br.body)
       IN  br' = [br EXCEPT !.body = Tail(br.body),
                            !.seen = Append(br.seen, c),
                            !.calls = IF ChunkHasText(c)
                                        THEN Append(br.calls, c.text)
                                        ELSE br.calls]
    /\ BrFrame

\* one turn of the for-await loop
BrChunk ==
    /\ br.pc = "reading"
    /\ br.body # <<>>
    /\ LET c == Head(br.body)
       IN  br' = [br EXCEPT !.body = Tail(br.body),
                            !.seen = Append(br.seen, c),
                            !.pc = IF ChunkThrows(c) THEN "thrown" ELSE "reading",
                            !.calls = IF ChunkHasText(c)
                                        THEN Append(br.calls, c.text)
                                        ELSE br.calls]
    /\ BrFrame

\* the response stream itself fails while the loop waits for a chunk
BrStreamError ==
    /\ br.pc = "reading"
    /\ br' = [br EXCEPT !.pc = "thrown"]
    /\ BrFrame

\* the response stream ends: the loop exits and the promise resolves
BrEnd ==
    /\ br.pc = "reading"
    /\ br.body = <<>>
    /\ br' = [br EXCEPT !.pc = "returned"]
    /\ BrFrame

BrNext ==
    \/ \E ok \in BOOLEAN : BrSend(ok)
    \/ BrChunk
    \/ BrStreamError
    \/ BrEnd

SpecBedrock == BrInit /\ [][BrNext]_vars

\* ------------------------------------------------- the EventSource client
\* App.tsx: the states input, eventSourceActive and aiResponse, and the
\* event source the effect holds.  Every event source is a request of its
\* own; a displayed chunk remembers the source it came from.
Inputs == {"", "p", "q"}

\* the messages a source can deliver to onmessage
UiFrames == { SseData(x) : x \in IncrTexts \cup {""} } \cup {SseDone}

UiInit ==
    /\ NormOff
    /\ env = [keyId |-> TRUE, secret |-> TRUE]
    /\ RelayIdle
    /\ LogOff
    /\ br = BrOff
    /\ conns = ConnsOff
    /\ \E v \in Inputs :
          ui = [pc |-> "on", input |-> v, active |-> FALSE, aiResponse |-> <<>>,
                src |-> 0, opened |-> 0, last |-> "none"]

UiFrame == UNCHANGED <<normVars, relayVars, logVars, br, conns>>

\* the effect with dependencies [input, eventSourceActive] after they have
\* changed: the cleanup closes the source of the previous run, and a new
\* source is opened if (input && eventSourceActive)
EffectOpens(input, active) == input # "" /\ active

EffectSrc(input, active, opened) ==
    IF EffectOpens(input, active) THEN opened + 1 ELSE 0

EffectOpened(input, active, opened) ==
    IF EffectOpens(input, active) THEN opened + 1 ELSE opened

\* handleFormSubmit; the button is disabled while eventSourceActive
UiSubmit ==
    /\ ~ui.active
    /\ EffectOpens(ui.input, TRUE) => ui.opened < MaxOpens
    /\ ui' = [ui EXCEPT !.active = TRUE,
                        !.aiResponse = <<>>,
                        !.src = EffectSrc(ui.input, TRUE, ui.opened),
                        !.opened = EffectOpened(ui.input, TRUE, ui.opened),
                        !.last = "submit"]
    /\ UiFrame

\* handleInputChange of the input field, which is never disabled
UiEdit(v) ==
    /\ v # ui.input
    /\ EffectOpens(v, ui.active) => ui.opened < MaxOpens
    /\ ui' = [ui EXCEPT !.input = v,
                        !.src = EffectSrc(v, ui.active, ui.opened),
                        !.opened = EffectOpened(v, ui.active, ui.opened),
                        !.last = "edit"]
    /\ UiFrame

\* a plausible slip: the message is parsed before it is compared with the
\* marker; '[DONE]' is not JSON, the catch logs it and the source stays open
UiMessage_parseFirst(f) ==
    /\ ui.src # 0
    /\ (IsContent(f) /\ TextOf(f) # "") => Len(ui.aiResponse) < MaxIncr
    /\ IF f = SseDone
         THEN ui' = [ui EXCEPT !.last = "done"]
         ELSE IF IsContent(f) /\ TextOf(f) # ""
         THEN ui' = [ui EXCEPT !.aiResponse =
                                   Append(@, [src |-> ui.src, text |-> TextOf(f)]),
                               !.last = "chunk"]
         ELSE ui' = [ui EXCEPT !.last = "empty"]
    /\ UiFrame

\* eventSource.onmessage
UiMessage(f) ==
    /\ ui.src # 0
    /\ (IsContent(f) /\ TextOf(f) # "") => Len(ui.aiResponse) < MaxIncr
    /\ IF f.data = <<"[DONE]">>
         THEN ui' = [ui EXCEPT !.src = 0, !.active = FALSE, !.last = "done"]
         ELSE IF IsContent(f) /\ TextOf(f) # ""
         THEN ui' = [ui EXCEPT !.aiResponse =
                                   Append(@, [src |-> ui.src, text |-> TextOf(f)]),
                               !.last = "chunk"]
         ELSE ui' = [ui EXCEPT !.last = "empty"]
    /\ UiFrame

\* eventSource.onerror
UiError ==
    /\ ui.src # 0
    /\ ui' = [ui EXCEPT !.src = 0, !.active = FALSE, !.last = "error"]
    /\ UiFrame

UiNext ==
    \/ UiSubmit
    \/ \E v \in Inputs : UiEdit(v)
    \/ \E f \in UiFrames : UiMessage(f)
    \/ UiError

SpecClient == UiInit /\ [][UiNext]_vars

\* ------------------------------------------- requests in flight together
\* Several requests of the data-stream handler at once.  Everything a
\* handler call works with (result, response, reader, pump, reply) is a
\* local of that call, so each request has its own record; the k-th
\* increment of the remote stream of request i is PairIncr(i, k).
Conns == 1..NumConn

PairMeta(i) == [kind |-> "meta", conn |-> i, n |-> 0]
PairIncr(i, k) == [kind |-> "text", conn |-> i, n |-> k]
PairFinish(i) == [kind |-> "finish", conn |-> i, n |-> 0]
PairError(i) == [kind |-> "error", conn |-> i, n |-> 0]

ConnIdle ==
    [pc |-> "idle", status |-> 0, remote |-> "none", recv |-> <<>>,
     queue |-> <<>>, closed |-> FALSE, out |-> <<>>, ended |-> FALSE]

PairInit ==
    /\ NormOff
    /\ env = [keyId |-> TRUE, secret |-> TRUE]
    /\ RelayIdle
    /\ LogOff
    /\ br = BrOff
    /\ ui = UiOff
    /\ conns = [i \in Conns |-> ConnIdle]

PairFrame == UNCHANGED <<normVars, relayVars, logVars, br, ui>>

\* the handler is entered and calls streamText
ConnReceive(i) ==
    /\ conns[i].pc = "idle"
    /\ conns' = [conns EXCEPT ![i].pc = "awaitCall", ![i].remote = "calling"]
    /\ PairFrame

\* the call fails before a head is written: the catch answers 500
ConnCallFails(i) ==
    /\ conns[i].pc = "awaitCall"
    /\ conns' = [conns EXCEPT ![i].pc = "done", ![i].remote = "failed",
                              ![i].status = 500, ![i].ended = TRUE]
    /\ PairFrame

\* createDataStreamResponse, writeData(customData), writeHead
ConnCallReturns(i) ==
    /\ conns[i].pc = "awaitCall"
    /\ conns' = [conns EXCEPT ![i].pc = "streaming", ![i].remote = "open",
                              ![i].status = 200,
                              ![i].queue = <<PairMeta(i)>>]
    /\ PairFrame

\* the remote stream of request i delivers its next increment
ConnChunk(i) ==
    /\ conns[i].pc = "streaming"
    /\ conns[i].remote = "open"
    /\ Len(conns[i].recv) < MaxIncr
    /\ LET x == PairIncr(i, Len(conns[i].recv) + 1)
       IN  conns' = [conns EXCEPT ![i].recv = Append(@, x),
                                  ![i].queue = Append(@, x)]
    /\ PairFrame

\* the remote stream of request i ends
ConnFinish(i) ==
    /\ conns[i].pc = "streaming"
    /\ conns[i].remote = "open"
    /\ conns' = [conns EXCEPT ![i].remote = "ended",
                              ![i].queue = Append(@, PairFinish(i)),
                              ![i].closed = TRUE]
    /\ PairFrame

\* the remote stream of request i fails
ConnError(i) ==
    /\ conns[i].pc = "streaming"
    /\ conns[i].remote = "open"
    /\ conns' = [conns EXCEPT ![i].remote = "failed",
                              ![i].queue = Append(@, PairError(i)),
                              ![i].closed = TRUE]
    /\ PairFrame

\* a plausible slip: the reply written to is a variable of the module, set
\* by whichever request came last
ConnPump_shared(i) ==
    /\ conns[i].pc = "streaming"
    /\ conns[i].queue # <<>>
    /\ \E j \in Conns :
          /\ conns[j].status = 200
          /\ ~conns[j].ended
          /\ conns' = [k \in Conns |->
                         [conns[k] EXCEPT
                            !.queue = IF k = i THEN Tail(@) ELSE @,
                            !.out = IF k = j THEN Append(@, Head(conns[i].queue))
                                    ELSE @]]
    /\ PairFrame

\* pump of request i, not done: write the part to its own reply
ConnPump(i) ==
    /\ conns[i].pc = "streaming"
    /\ conns[i].queue # <<>>
    /\ conns' = [conns EXCEPT ![i].queue = Tail(@),
                              ![i].out = Append(@, Head(conns[i].queue))]
    /\ PairFrame

\* pump of request i, done: end its own reply
ConnPumpDone(i) ==
    /\ conns[i].pc = "streaming"
    /\ conns[i].queue = <<>>
    /\ conns[i].closed
    /\ conns' = [conns EXCEPT ![i].pc = "done", ![i].ended = TRUE]
    /\ PairFrame

PairNext ==
    \E i \in Conns :
        \/ ConnReceive(i)
        \/ ConnCallFails(i)
        \/ ConnCallReturns(i)
        \/ ConnChunk(i)
        \/ ConnFinish(i)
        \/ ConnError(i)
        \/ ConnPump(i)
        \/ ConnPumpDone(i)

SpecPair == PairInit /\ [][PairNext]_vars

\* ------------------------------------------------- the conversation log
\* Exchanges handled side by side, seen from the log directory: each takes
\* its session id from the clock when the handler starts, and its file
\* name from the session id and the clock when the recorder runs.

\* .slice(0, 10) of /api/history
HistoryLimit == 10

\* a file name `${sessionId}_${timestamp}.json`: session start, save time
NameOf(start, ts) == <<start, ts>>

\* string order of two file names: the session ids have the same length,
\* so the names compare by session start and then by the ISO timestamp
NameLess(a, b) == a[1] < b[1] \/ (a[1] = b[1] /\ a[2] < b[2])

\* a file put at its place in a list that is in descending name order
RECURSIVE InsertByName(_, _)
InsertByName(f, s) ==
    IF s = <<>> THEN <<f>>
    ELSE IF NameLess(Head(s).name, f.name)
           THEN <<f>> \o s
           ELSE <<Head(s)>> \o InsertByName(f, Tail(s))

\* files.sort().reverse(): the files in descending name order
RECURSIVE SortReverse(_)
SortReverse(files) ==
    IF files = {} THEN <<>>
    ELSE LET f == CHOOSE x \in files : TRUE
         IN  InsertByName(f, SortReverse(files \ {f}))

Slice(s, n) == SubSeq(s, 1, IF Len(s) < n THEN Len(s) ELSE n)

\* the record an exchange writes: session id, completion time, and whose
\* conversation it is
DataOf(e) == [sessionId |-> ex[e].start, completedAt |-> ex[e].ts, owner |-> e]

OldData(k) == [sessionId |-> k, completedAt |-> k, owner |-> 0]

NoData == [sessionId |-> 0, completedAt |-> 0, owner |-> 0]

\* files left in the directory by earlier runs of the server
OldFiles(n) ==
    { [name |-> NameOf(k, k), data |-> OldData(k), complete |-> TRUE, seq |-> k]
        : k \in 1..n }

LogInit ==
    /\ NormOff
    /\ env = [keyId |-> TRUE, secret |-> TRUE]
    /\ RelayIdle
    /\ \E n \in {0, HistoryLimit - 1} :
          /\ logDir = OldFiles(n)
          /\ created = n
    /\ now = HistoryLimit + 1
    /\ ex = [e \in Exchanges |-> [state |-> "idle", start |-> 0, ts |-> 0]]
    /\ history = <<>>
    /\ hStatus = 0
    /\ listsSinceWrite = 0
    /\ healthBody = NoBody
    /\ ExtOff

\* a millisecond passes
Tick ==
    /\ now < HistoryLimit + 1 + MaxTicks
    /\ now' = now + 1
    /\ UNCHANGED <<ex, logDir, created, history, hStatus, listsSinceWrite,
                   healthBody>>
    /\ UNCHANGED <<normVars, relayVars, extVars>>

\* a handler starts: sessionId = `session_${Date.now()}`
LogStart(e) ==
    /\ ex[e].state = "idle"
    /\ ex' = [ex EXCEPT ![e] = [state |-> "open", start |-> now, ts |-> 0]]
    /\ UNCHANGED <<now, logDir, created, history, hStatus, listsSinceWrite,
                   healthBody>>
    /\ UNCHANGED <<normVars, relayVars, extVars>>

\* onFinish calls saveConversationToFile: the name is built from the
\* session id and the clock, and fs.writeFile opens the file, truncating a
\* file of that name, or fails
LogFinish(e, ok) ==
    /\ ex[e].state = "open"
    /\ IF ok
         THEN /\ ex' = [ex EXCEPT ![e].state = "writing", ![e].ts = now]
              /\ logDir' = { f \in logDir : f.name # NameOf(ex[e].start, now) }
                             \cup { [name |-> NameOf(ex[e].start, now),
                                     data |-> NoData,
                                     complete |-> FALSE,
                                     seq |-> created + 1] }
              /\ created' = created + 1
              /\ listsSinceWrite' = 0
              /\ history' = <<>>
              /\ hStatus' = 0
         ELSE /\ ex' = [ex EXCEPT ![e] = [state |-> "failed", start |-> 0, ts |-> 0]]
              /\ UNCHANGED <<logDir, created, listsSinceWrite, history, hStatus>>
    /\ UNCHANGED <<now, healthBody>>
    /\ UNCHANGED <<normVars, relayVars, extVars>>

\* fs.writeFile resolves: the file holds the whole record
LogWritten(e) ==
    /\ ex[e].state = "writing"
    /\ ex' = [ex EXCEPT ![e].state = "saved"]
    /\ logDir' = { IF f.name = NameOf(ex[e].start, ex[e].ts)
                     THEN [f EXCEPT !.data = DataOf(e), !.complete = TRUE]
                     ELSE f : f \in logDir }
    /\ listsSinceWrite' = 0
    /\ history' = <<>>
    /\ hStatus' = 0
    /\ UNCHANGED <<now, created, healthBody>>
    /\ UNCHANGED <<normVars, relayVars, extVars>>

RecentFiles(dir) == Slice(SortReverse(dir), HistoryLimit)

\* every file of the list holds a whole record (JSON.parse succeeds)
RECURSIVE AllParse(_)
AllParse(fs) ==
    IF fs = <<>> THEN TRUE ELSE Head(fs).complete /\ AllParse(Tail(fs))

\* history.push(JSON.parse(content)) for each file of the list
RECURSIVE Contents(_)
Contents(fs) ==
    IF fs = <<>> THEN <<>> ELSE <<Head(fs).data>> \o Contents(Tail(fs))

CountUpTo(n) == IF n < 2 THEN n + 1 ELSE n

\* a plausible slip: the files beyond the newest ten are removed on listing
ListHistory_prune ==
    /\ LET recentFiles == RecentFiles(logDir)
       IN  /\ IF AllParse(recentFiles)
                THEN /\ history' = Contents(recentFiles)
                     /\ hStatus' = 200
                ELSE /\ history' = <<>>
                     /\ hStatus' = 500
           /\ logDir' = { recentFiles[i] : i \in 1..Len(recentFiles) }
    /\ listsSinceWrite' = CountUpTo(listsSinceWrite)
    /\ UNCHANGED <<now, ex, created, healthBody>>
    /\ UNCHANGED <<normVars, relayVars, extVars>>

\* a plausible slip: a file that does not parse is skipped
ListHistory_skip ==
    /\ LET recentFiles == RecentFiles(logDir)
           readable == SelectSeq(recentFiles, LAMBDA f : f.complete)
       IN  /\ history' = Contents(readable)
           /\ hStatus' = 200
    /\ listsSinceWrite' = CountUpTo(listsSinceWrite)
    /\ UNCHANGED <<now, ex, logDir, created, healthBody>>
    /\ UNCHANGED <<normVars, relayVars, extVars>>

\* GET /api/history: readdir, sort, reverse, slice, then read and parse
\* each file; a file that is still being written does not parse and the
\* catch answers 500
ListHistory ==
    /\ LET recentFiles == RecentFiles(logDir)
       IN  IF AllParse(recentFiles)
             THEN /\ history' = Contents(recentFiles)
                  /\ hStatus' = 200
             ELSE /\ history' = <<>>
                  /\ hStatus' = 500
    /\ listsSinceWrite' = CountUpTo(listsSinceWrite)
    /\ UNCHANGED <<now, ex, logDir, created, healthBody>>
    /\ UNCHANGED <<normVars, relayVars, extVars>>

\* GET /api/history when readdir or a readFile rejects: the catch answers
\* 500; the run of listings over an unchanged directory starts anew
ListHistoryFails ==
    /\ history' = <<>>
    /\ hStatus' = 500
    /\ listsSinceWrite' = 0
    /\ UNCHANGED <<now, ex, logDir, created, healthBody>>
    /\ UNCHANGED <<normVars, relayVars, extVars>>

HealthPayload == [status |-> "ok", message |-> "Server is running"]

\* GET /
Health ==
    /\ healthBody' = HealthPayload
    /\ UNCHANGED <<now, ex, logDir, created, history, hStatus, listsSinceWrite>>
    /\ UNCHANGED <<normVars, relayVars, extVars>>

LogNext ==
    \/ Tick
    \/ \E e \in Exchanges : LogStart(e)
    \/ \E e \in Exchanges : \E ok \in BOOLEAN : LogFinish(e, ok)
    \/ \E e \in Exchanges : LogWritten(e)
    \/ ListHistory
    \/ ListHistoryFails
    \/ Health

SpecLog == LogInit /\ [][LogNext]_vars

\* =================================================================== claims
\* the handler got past the remote call and wrote the 200 head
Streamed == status = 200

\* C1: the content events written to the client are the increments received
\* from the remote stream, each once and in arrival order; increments not
\* yet written are the ones still queued, and none is missing when the
\* handler has finished
C1_IncrementsForwardedInOrder ==
    /\ IsPrefix(ContentTexts(out), recv)
    /\ ContentTexts(out) \o ContentTexts(sdkQueue) = recv
    /\ CountContent(out) = Len(ContentTexts(out))
    /\ (pc = "done" /\ Streamed) => ContentTexts(out) = recv

C1_Witness ==
    /\ pc = "done"
    /\ remoteState = "ended"
    /\ Len(recv) = 2
    /\ recv[1] # recv[2]
    /\ ContentTexts(out) = recv

C3_SentinelLastThenClose ==
    /\ \A i \in 1..Len(out) : IsSentinel(out[i]) => i = Len(out)
    /\ \A i \in 1..Len(out) : IsContent(out[i]) => ~IsSentinel(out[i])
    /\ (pc = "done" /\ remoteState = "ended") =>
          /\ ended
          /\ Len(out) > 0
          /\ IsSentinel(out[Len(out)])
          /\ ContentTexts(out) = recv
    /\ (ended /\ Streamed /\ remoteState = "ended") => IsSentinel(out[Len(out)])

C3_Witness ==
    /\ pc = "done"
    /\ ended
    /\ remoteState = "ended"
    /\ \E i \in 1..Len(recv) : recv[i] = "[DONE]"
    /\ IsSentinel(out[Len(out)])
    /\ CountSentinel(out) = 1

\* C4: a remote failure before any content increment was sent is answered
\* with a single 500 error response, without a 200 head or stream bytes
C4_FailureBeforeContentIs500 ==
    (pc = "done" /\ remoteState = "failed" /\ recv = <<>>) =>
        /\ status = 500
        /\ body # ""
        /\ out = <<>>

\* C6: after the client has disconnected the relay stops reading and the
\* remote stream is terminated: it never delivers further increments and
\* then runs to its natural end
C6_DisconnectCancelsRemote ==
    ~(clientGone /\ remoteState = "ended" /\ Len(recv) > goneAt)

\* C7: with either credential unset, a request with valid input is answered
\* 500 with an error body; no remote call is opened, nothing is written to
\* the stream and nothing is recorded
C7_MissingCredentialsIs500 ==
    (/\ req.handler # "none"
     /\ ~env.keyId \/ ~env.secret
     /\ IsDs(req.handler) => ~Falsy(req.prompt) \/ Len(req.messages.list) > 0)
    =>
        /\ pc = "done"
        /\ status = 500
        /\ body # ""
        /\ ended
        /\ remoteState = "none"
        /\ out = <<>>
        /\ sdkQueue = <<>>
        /\ saveState = "idle"
        /\ store = {}

C7_Witness ==
    /\ env.keyId
    /\ ~env.secret
    /\ req.handler = "dsPOST"
    /\ ~Falsy(req.prompt)
    /\ status = 500
    /\ body = "AWS credentials are not set"

\* C8: a request of the validating handlers with no prompt and with an
\* absent or empty message list is rejected with 400 and an error body; no
\* remote call is opened, nothing is written to the stream and nothing is
\* recorded
C8_MissingInputIs400 ==
    (/\ IsDs(req.handler)
     /\ ~req.prompt.present \/ req.prompt.text = <<>>
     /\ ~req.messages.present \/ Len(req.messages.list) = 0)
    =>
        /\ pc = "done"
        /\ status = 400
        /\ body # ""
        /\ ended
        /\ remoteState = "none"
        /\ out = <<>>
        /\ sdkQueue = <<>>
        /\ saveState = "idle"
        /\ store = {}

C8_Witness ==
    /\ req.handler = "dsPOST"
    /\ ~req.prompt.present
    /\ req.messages.present
    /\ req.messages.list = <<>>
    /\ env.keyId /\ env.secret
    /\ status = 400

SystemIdx(messages) == { i \in 1..Len(messages) : messages[i].role = "system" }

\* C9: every normalised list has at most one system message, and a system
\* message, if present, is at index 0 (position 1 of the sequence)
C9_AtMostOneSystemAtHead ==
    nPc = "done" =>
        /\ Cardinality(SystemIdx(nOut)) <= 1
        /\ SystemIdx(nOut) \subseteq {1}

\* C10: when the input has a system entry, every system entry is replaced
\* in place by the synthesised system message, the other entries are kept,
\* and the output is as long as the input
C10_ReplaceInPlace ==
    (nPc = "done" /\ hasSystemPrompt(nIn)) =>
        /\ Len(nOut) = Len(nIn)
        /\ \A i \in 1..Len(nIn) :
              IF nIn[i].role = "system"
                THEN nOut[i] = SystemMessage(nRefs)
                ELSE nOut[i] = nIn[i]

C10_Witness ==
    /\ nPc = "done"
    /\ Len(nIn) >= 2
    /\ nIn[2].role = "system"
    /\ nOut[2] = SystemMessage(nRefs)
    /\ nOut[2] # nIn[2]
    /\ Len(nRefs) > 0
\* C11: a request of the normalising handlers with a non-empty prompt and
\* no prior messages (list absent or empty) submits exactly two messages:
\* the synthesised system message, then a user message holding the prompt
C11_PromptOnlyGivesTwoMessages ==
    (/\ IsDs(req.handler)
     /\ remoteState # "none"
     /\ req.prompt.present /\ req.prompt.text # <<>>
     /\ ~req.messages.present \/ Len(req.messages.list) = 0)
    =>
        /\ Len(messageArray) = 2
        /\ messageArray[1].role = "system"
        /\ messageArray[2] = [role |-> "user", content |-> req.prompt.text]

RECURSIVE NonSystem(_)
NonSystem(messages) ==
    IF messages = <<>> THEN <<>>
    ELSE IF Head(messages).role # "system"
           THEN <<Head(messages)>> \o NonSystem(Tail(messages))
           ELSE NonSystem(Tail(messages))

\* C12: for a non-empty input list the non-system messages come out
\* unchanged and in the same order; input and output differ only by the
\* synthesised system message (replacing in place, or prepended)
C12_NonSystemMessagesKept ==
    (nPc = "done" /\ Len(nIn) > 0) =>
        /\ NonSystem(nOut) = NonSystem(nIn)
        /\ \A i \in SystemIdx(nOut) : nOut[i] = SystemMessage(nRefs)
        /\ IF SystemIdx(nIn) # {}
             THEN /\ Len(nOut) = Len(nIn)
                  /\ \A i \in 1..Len(nIn) :
                        nIn[i].role # "system" => nOut[i] = nIn[i]
             ELSE Tail(nOut) = nIn

C12_Witness ==
    /\ nPc = "done"
    /\ Len(nIn) = 3
    /\ nIn[1].role = "user"
    /\ nIn[2].role = "system"
    /\ nIn[3].role = "assistant"
    /\ nIn[1].content # nIn[3].content
    /\ NonSystem(nOut) = <<nIn[1], nIn[3]>>

IsIdxTok(t) == t \in {"[0]", "[1]", "[2]", "[3]", "[4]", "[n]"}

\* the citation lines of a system prompt: each index token with the title
\* and the url that follow it
RECURSIVE CitationLines(_)
CitationLines(tokens) ==
    IF tokens = <<>> THEN <<>>
    ELSE IF IsIdxTok(Head(tokens)) /\ Len(tokens) >= 3
           THEN << <<tokens[1], tokens[2], tokens[3]>> >> \o CitationLines(Tail(tokens))
           ELSE CitationLines(Tail(tokens))

ExpectedCitations(references) ==
    [k \in 1..Len(references) |->
        <<CASE k = 1 -> "[1]" [] k = 2 -> "[2]" [] k = 3 -> "[3]" [] OTHER -> "[4]",
          references[k].title, references[k].url>>]

\* C13: the synthesised system message has no citation for an empty
\* reference list and otherwise one citation line per document, numbered
\* from 1, in the input order of the documents
C13_OneCitationPerDocument ==
    nPc = "done" =>
        \A i \in SystemIdx(nOut) :
            /\ CitationLines(nOut[i].content) = ExpectedCitations(nRefs)
            /\ Len(nRefs) = 0 => nOut[i].content = <<"BASE">>

C13_Witness ==
    /\ nPc = "done"
    /\ Len(nRefs) = 2
    /\ nRefs[1].title = "T2"
    /\ nRefs[2].title = "T1"
    /\ Len(CitationLines(nOut[1].content)) = 2
    /\ CitationLines(nOut[1].content)[1][2] = "T2"
\* C14: the recorder is called exactly once for a request whose remote
\* stream has completed, never more than once, and never for a request that
\* was rejected or whose remote call failed before any content
C14_RecorderOncePerCompletion ==
    IsDs(req.handler) =>
        /\ saveCalls <= 1
        /\ remoteState = "ended" => saveCalls = 1
        /\ status \in {400, 500} => saveCalls = 0
        /\ (remoteState \in {"none", "calling"}
              \/ (remoteState = "failed" /\ recv = <<>>))
             => (saveCalls = 0 /\ saveState = "idle" /\ store = {})

C14_Witness ==
    /\ IsDs(req.handler)
    /\ remoteState = "ended"
    /\ Len(recv) = 2
    /\ saveCalls = 1
    /\ saveState = "saved"
    /\ pc = "done"

\* the frames that reached the client: everything written before it went away
Delivered == IF clientGone THEN SubSeq(out, 1, outAtGone) ELSE out

\* C15: once a request has completed and is recorded, the content
\* increments delivered to the client, concatenated in delivery order, are
\* the response field of the record stored for the request
C15_DeliveredEqualsRecorded ==
    (IsDs(req.handler) /\ pc = "done" /\ saveState = "saved") =>
        \A f \in store : ContentTexts(Delivered) = f.data.response

\* C16: a failed write of the conversation log changes nothing the client
\* can see (status, body, frames written or pending, closing of the stream)
\* and leaves the handler where it was
C16_SaveFailureInvisible ==
    [][(saveState = "writing" /\ saveState' = "failed") =>
          UNCHANGED <<status, body, out, sdkQueue, sdkClosed, ended, pc,
                      remoteState, recv>>]_vars

C16_Witness ==
    /\ saveState = "failed"
    /\ pc = "done"
    /\ status = 200
    /\ ended
    /\ Len(recv) = 2
    /\ ContentTexts(out) = recv
    /\ out[Len(out)] = DsFinish
    /\ CountSentinel(out) = 1

Saved == { e \in Exchanges : ex[e].state = "saved" }

\* C17: two distinct recorded exchanges have distinct file names, and the
\* directory holds one record for every recorded exchange
C17_DistinctNamesPerExchange ==
    /\ \A a, b \in Saved :
          a # b => NameOf(ex[a].start, ex[a].ts) # NameOf(ex[b].start, ex[b].ts)
    /\ (\A e \in Exchanges : ex[e].state # "writing") =>
          Cardinality({ f \in logDir : f.data.owner # 0 }) = Cardinality(Saved)

\* the files in the order of their creation, newest first
RECURSIVE NewestFirst(_)
NewestFirst(dir) ==
    IF dir = {} THEN <<>>
    ELSE LET m == CHOOSE f \in dir : \A g \in dir : g.seq <= f.seq
         IN  <<m.data>> \o NewestFirst(dir \ {m})

\* C18: a listing returns min(10, n) of the n stored records, the most
\* recently created ones, newest first
C18_MostRecentlyCreatedFirst ==
    (listsSinceWrite >= 1 /\ \A f \in logDir : f.complete) =>
        /\ hStatus = 200
        /\ Len(history) = (IF Cardinality(logDir) < HistoryLimit
                             THEN Cardinality(logDir) ELSE HistoryLimit)
        /\ history = Slice(NewestFirst(logDir), HistoryLimit)

\* C19: a listing and a health check leave the log directory as it is; a
\* listing that follows a listing with no write in between returns the same
\* reply; the health check returns the fixed payload
C19_ReadsChangeNothing ==
    [][/\ listsSinceWrite' > listsSinceWrite => logDir' = logDir
       /\ (listsSinceWrite' > listsSinceWrite /\ listsSinceWrite >= 1)
             => (history' = history /\ hStatus' = hStatus)
       /\ healthBody' # healthBody
             => (logDir' = logDir /\ healthBody' = HealthPayload)]_vars

C19_Witness ==
    /\ listsSinceWrite = 2
    /\ hStatus = 200
    /\ Len(history) = HistoryLimit
    /\ Cardinality(logDir) > HistoryLimit
    /\ Saved # {}
    /\ healthBody = HealthPayload
\* the same request sent through the other form of submit-prompt
Twin(r) == [r EXCEPT !.handler = IF r.handler = "dsPOST" THEN "dsGET" ELSE "dsPOST"]

\* C21: for the same prompt and the same reference list (absent, empty or
\* not) the GET form and the POST form take the same accept/reject
\* decision, submit the same message list and echo the same references
C21_GetAndPostAgree ==
    (/\ IsDs(req.handler)
     /\ ~req.messages.present
     /\ req.references.kind \in {"absent", "list"})
    =>
        /\ (status = 400) <=> InvalidRequest(Twin(req))
        /\ remoteState # "none" =>
              /\ messageArray = messageArrayOf(Twin(req))
              /\ customData.references = customDataOf(Twin(req)).references

\* C22: the references of the metadata are the references of the request,
\* the list the system message sent to the remote endpoint was built from
C22_MetadataEchoesRequestReferences ==
    (IsDs(req.handler) /\ remoteState # "none") =>
        /\ \E i \in 1..Len(messageArray) :
              messageArray[i] = SystemMessage(EffectiveRefs(req))
        /\ customData.references = MetaRefs(EffectiveRefs(req))

\* C29: the normaliser applied to its own output, with the same
\* references, returns that output
C29_NormalizeIdempotent ==
    nPc = "again" => nOut = nIn

C29_Witness ==
    /\ nPc = "again"
    /\ Len(nIn) = 3
    /\ Cardinality(SystemIdx(nIn)) = 2
    /\ Len(nRefs) = 2
    /\ nOut = nIn
\* C30: a listing answers 500 with no list when one of the selected files
\* is only partly written (or the directory or a file cannot be read), and
\* otherwise 200 with complete stored records only
C30_ListAllOrError ==
    /\ hStatus = 500 => history = <<>>
    /\ hStatus = 200 => \A i \in 1..Len(history) : history[i] # NoData
    /\ listsSinceWrite >= 1 =>
          LET recentFiles == RecentFiles(logDir)
          IN  IF \E f \in logDir :
                    /\ ~f.complete
                    /\ \E i \in 1..Len(recentFiles) : recentFiles[i] = f
                THEN hStatus = 500 /\ history = <<>>
                ELSE /\ hStatus = 200
                     /\ \A i \in 1..Len(history) :
                           \E f \in logDir : f.complete /\ f.data = history[i]

C30_Witness ==
    /\ listsSinceWrite >= 1
    /\ hStatus = 500
    /\ history = <<>>
    /\ \E f \in logDir : ~f.complete
    /\ \E f \in logDir : f.complete
\* C28: once the remote stream of an accepted request has ended, the
\* request reaches a state where every increment has been forwarded and the
\* output channel is closed
C28_EndedStreamIsClosed ==
    (remoteState = "ended") ~> (ended /\ ContentTexts(out) = recv)

C28_Witness ==
    /\ IsDs(req.handler)
    /\ remoteState = "ended"
    /\ pc = "done"
    /\ ended
    /\ sdkQueue = <<>>
    /\ Len(recv) = MaxIncr
    /\ ContentTexts(out) = recv
    /\ saveState = "writing"
\* the non-empty delta texts of content_block_delta chunks, in order
RECURSIVE DeltaTexts(_)
DeltaTexts(chunks) ==
    IF chunks = <<>> THEN <<>>
    ELSE (IF /\ Head(chunks).bytes
             /\ Head(chunks).parses
             /\ Head(chunks).type = "content_block_delta"
             /\ Head(chunks).text # ""
            THEN <<Head(chunks).text>> ELSE <<>>) \o DeltaTexts(Tail(chunks))

\* C25: onChunk has been called once for each content_block_delta chunk
\* with non-empty text read so far, in arrival order, and for nothing else;
\* a chunk that fails to parse is the last chunk read and the call has
\* thrown; a failed send has thrown before any chunk was read
C25_OnChunkPerDelta ==
    /\ br.calls = DeltaTexts(br.seen)
    /\ \A i \in 1..Len(br.seen) :
          (br.seen[i].bytes /\ ~br.seen[i].parses) =>
              (i = Len(br.seen) /\ br.pc = "thrown")
    /\ br.pc = "returned" =>
          (br.body = <<>> /\ \A i \in 1..Len(br.seen) :
                                 ~br.seen[i].bytes \/ br.seen[i].parses)

C25_Witness ==
    /\ br.pc = "thrown"
    /\ Len(br.seen) = 2
    /\ br.seen[1].type = "content_block_delta"
    /\ br.seen[1].text = "b"
    /\ ~br.seen[2].parses
    /\ br.calls = <<"b">>
\* C26: when '[DONE]' is received the source is closed, the active flag
\* becomes false and nothing is appended; while the flag is false nothing
\* is appended to the answer by anything but a submit, which clears it
C26_DoneClosesAndStops ==
    [][/\ (ui'.last = "done" /\ ui' # ui) =>
             (ui'.src = 0 /\ ~ui'.active /\ ui'.aiResponse = ui.aiResponse)
       /\ (~ui.active /\ ui' # ui /\ ui'.last # "submit") =>
             (ui'.aiResponse = ui.aiResponse /\ ui'.src = 0)]_vars

C26_Witness ==
    /\ ui.pc = "on"
    /\ ui.last = "edit"
    /\ ~ui.active
    /\ ui.src = 0
    /\ ui.opened = 1
    /\ Len(ui.aiResponse) = 1
    /\ ui.aiResponse[1].text = "[DONE]"

\* C27: the displayed answer holds chunks of one request only
C27_AnswerOfOneRequest ==
    ui.pc = "on" =>
        \A i, j \in 1..Len(ui.aiResponse) :
            ui.aiResponse[i].src = ui.aiResponse[j].src
\* the text parts among the frames a client was sent
RECURSIVE PairTexts(_)
PairTexts(frames) ==
    IF frames = <<>> THEN <<>>
    ELSE (IF Head(frames).kind = "text" THEN <<Head(frames)>> ELSE <<>>)
           \o PairTexts(Tail(frames))

\* C23: with several requests in flight each client is sent its own
\* metadata first and then increments of its own remote stream only, in
\* that stream's order; and a step in which one request fails leaves every
\* other request as it was
C23_RequestsIsolated ==
    /\ [](\A i \in Conns :
             /\ \A k \in 1..Len(conns[i].out) :
                   /\ conns[i].out[k].conn = i
                   /\ (k = 1) <=> (conns[i].out[k].kind = "meta")
             /\ Len(PairTexts(conns[i].out)) <= Len(conns[i].recv)
             /\ PairTexts(conns[i].out)
                   = SubSeq(conns[i].recv, 1, Len(PairTexts(conns[i].out)))
             /\ \A k \in 1..Len(conns[i].recv) :
                   conns[i].recv[k].conn = i /\ conns[i].recv[k].n = k)
    /\ [][\A i, j \in Conns :
             (i # j /\ conns[j].remote # "failed" /\ conns'[j].remote = "failed")
                => conns'[i] = conns[i]]_vars

C23_Witness ==
    /\ conns[1].pc = "done"
    /\ conns[1].status = 200
    /\ conns[1].remote = "ended"
    /\ Len(conns[1].out) = MaxIncr + 2
    /\ conns[2].pc = "done"
    /\ conns[2].status = 200
    /\ conns[2].remote = "failed"
    /\ Len(conns[2].recv) = 1
    /\ Len(conns[2].out) = 3
====
